---- MODULE Spec2Model ----
(***************************************************************************)
(* Employee Management API (src/main.py): one SQLite table "employees"     *)
(* behind five FastAPI handlers.  Every handler opens its own Session and  *)
(* runs in the server's thread pool, so the SQL statements of concurrent   *)
(* requests interleave; a commit (flush + COMMIT) is one atomic step of    *)
(* the database.                                                           *)
(***************************************************************************)
EXTENDS Integers, Sequences, FiniteSets, TLC

VARIABLES table, req, sessions

vars == <<table, req, sessions>>

(* ---------------------------------------------------------------- values *)

\* Python's None and Optional[...]: an optional value is a set of at most one
\* element.
None == {}
Some(x) == {x}
Val(o) == CHOOSE x \in o : TRUE

\* Largest id the model lets the store hand out (guard of the insert), in
\* the specifications of the writes and in the one of the queries.
MaxId == 2
MaxRows == 4

\* Largest page and per_page the model asks for.
MaxPage == 3
MaxPerPage == 4

\* Query(10, ge=1, le=100)
PerPageLimit == 100

\* Field(..., ge=18, le=100)
MinAge == 18
MaxAge == 100

Workers == {"w1", "w2"}

FieldNames == {"name", "email", "age", "department"}

\* The falsy value of each field's Python type ("" and 0).
Falsy == [name |-> <<>>, email |-> "", age |-> 0, department |-> <<>>]

\* `if payload.<f>:` of update_employee (and what `is not None` would be).
Truthy_NotNone(f, o) == o # None
Truthy(f, o) == o # None /\ Val(o) # Falsy[f]

\* str.strip(): a string is a sequence of characters, " " the whitespace.
RECURSIVE lstrip(_)
lstrip(s) == IF s # <<>> /\ Head(s) = " " THEN lstrip(Tail(s)) ELSE s

RECURSIVE rstrip(_)
rstrip(s) ==
    IF s # <<>> /\ s[Len(s)] = " " THEN rstrip(SubSeq(s, 1, Len(s) - 1)) ELSE s

\* (The string as given, were .strip() left out.)
strip_Identity(s) == s
strip(s) == rstrip(lstrip(s))

\* EmailStr: the well-formed addresses the model draws; any other string
\* ("nomail") is refused.
ValidEmails == {"a@x.io", "b@x.io", "c@x.io", "d@x.io"}
EmailStr(e) == e \in ValidEmails

(* ------------------------------------------------------------ validation *)

\* EmployeeCreate: every field required, min_length=1, ge=18, le=100.
EmployeeCreate(p) ==
    /\ \A f \in FieldNames : p[f] # None
    /\ Len(Val(p.name)) >= 1
    /\ EmailStr(Val(p.email))
    /\ Val(p.age) >= MinAge /\ Val(p.age) <= MaxAge
    /\ Len(Val(p.department)) >= 1

\* EmployeeUpdate: every field optional, only the email has a constraint.
EmployeeUpdate(p) == p.email # None => EmailStr(Val(p.email))

(* ------------------------------------------------------------- the store *)

\* A row of table employees.
EmployeeORM(i, e) ==
    [id |-> i, name |-> e.name, email |-> e.email, age |-> e.age,
     department |-> e.department]

\* The mapped attributes of a loaded row (the session's snapshot of it).
Attrs(r) ==
    [name |-> r.name, email |-> r.email, age |-> r.age,
     department |-> r.department]

MaxRowid(t) ==
    IF t = {} THEN 0 ELSE CHOOSE i \in {r.id : r \in t} : \A r \in t : r.id <= i

\* INTEGER PRIMARY KEY without AUTOINCREMENT: SQLite hands out the largest
\* rowid in the table plus one.
NextRowid(t) == MaxRowid(t) + 1

\* unique=True on email: a write of `email` into row `i` is refused when
\* another row holds it (i = 0 for an insert).
\* (Without the unique index every write would pass.)
UniqueEmailOk_Off(t, i, email) == TRUE
UniqueEmailOk(t, i, email) == \A r \in t : r.id # i => r.email # email

\* db.query(EmployeeORM).filter(EmployeeORM.id == emp_id).first()
get_employee(t, i) ==
    IF \E r \in t : r.id = i THEN Some(CHOOSE r \in t : r.id = i) ELSE None

\* db.query(EmployeeORM).filter(EmployeeORM.email == payload.email).first()
email_exists(t, email) == \E r \in t : r.email = email

(* -------------------------------------------------------------- requests *)

NoPayload == [name |-> None, email |-> None, age |-> None, department |-> None]

NoQuery == [dept |-> None, search |-> None, page |-> 1, per_page |-> 10]

\* SessionLocal(): a new Session, told from the open ones by its number.
SessionLocal(open) ==
    CHOOSE s \in 1..(Cardinality(open) + 1) :
        s \notin open /\ \A o \in 1..(s - 1) : o \in open

\* db.close(): the session is no longer open.
\* (Without the close the session would stay open.)
close_Leak(open, s) == open
close(open, s) == open \ {s}

\* A worker thread with no request.  Of a request: the operation and where
\* its handler stands, the path id (or the id the insert was given), the
\* body, the query parameters of a list or an export, the number of its
\* session (0 while it has none), the loaded employee, the status
\* code, the employee or the employees returned, the text of a CSV
\* response, the exception that ended it, and whether its commit changed the
\* table.
Idle ==
    [op |-> "idle", pc |-> "idle", id |-> 0, payload |-> NoPayload,
     query |-> NoQuery, db |-> 0, emp |-> None, resp |-> 0, body |-> None,
     rows |-> <<>>, text |-> <<>>, err |-> "none", wrote |-> FALSE]

\* The handler raised or returned: the response is fixed.
Respond(r, code, error) == [r EXCEPT !.pc = "done", !.resp = code, !.err = error]

TypeOK ==
    /\ \A r \in table : r.id \in 1..MaxRows
    /\ \A w \in Workers : req[w].pc \in
           {"idle", "check", "lookup", "commit", "refresh", "query", "done"}
    /\ sessions \subseteq 1..Cardinality(Workers)

Init ==
    /\ table = {}
    /\ req = [w \in Workers |-> Idle]
    /\ sessions = {}

(* ------------------------------------------------------- create_employee *)

\* POST /employees arrives: pydantic validates the body before the handler
\* runs (422 otherwise); the handler opens its session, db = SessionLocal().
StartCreate(w, inputs) ==
    /\ req[w].pc = "idle"
    /\ \E p \in inputs :
         req' = [req EXCEPT ![w] =
                    IF EmployeeCreate(p)
                    THEN [Idle EXCEPT !.op = "create", !.pc = "check", !.payload = p,
                                      !.db = SessionLocal(sessions)]
                    ELSE Respond([Idle EXCEPT !.op = "create", !.payload = p],
                                 422, "none")]
    /\ UNCHANGED table
    /\ sessions' = sessions \cup ({req'[w].db} \ {0})

\* The duplicate-email query, then EmployeeORM(...) and db.add(emp).
CreateCheck(w) ==
    /\ req[w].op = "create" /\ req[w].pc = "check"
    /\ LET p == req[w].payload IN
       req' = [req EXCEPT ![w] =
                  IF email_exists(table, Val(p.email))
                  THEN Respond(@, 400, "none")
                  ELSE [@ EXCEPT !.pc = "commit",
                                 !.emp = Some([name |-> strip(Val(p.name)),
                                               email |-> Val(p.email),
                                               age |-> Val(p.age),
                                               department |-> strip(Val(p.department))])]]
    /\ UNCHANGED <<table, sessions>>

\* db.commit(): INSERT and COMMIT; the unique index refuses a second row
\* with the email (IntegrityError, nothing handles it: 500).
CreateCommit(w, cap) ==
    /\ req[w].op = "create" /\ req[w].pc = "commit"
    /\ LET e == Val(req[w].emp) IN
       IF ~UniqueEmailOk(table, 0, e.email)
       THEN /\ req' = [req EXCEPT ![w] = Respond(@, 500, "IntegrityError")]
            /\ UNCHANGED table
       ELSE /\ NextRowid(table) <= cap
            /\ table' = table \cup {EmployeeORM(NextRowid(table), e)}
            /\ req' = [req EXCEPT ![w] = [@ EXCEPT !.pc = "refresh",
                                                   !.id = NextRowid(table),
                                                   !.wrote = TRUE]]
    /\ UNCHANGED sessions

\* db.refresh(emp); return emp: the row is read back by its primary key
\* (InvalidRequestError when it is gone).
refresh(r, t, code) ==
    IF get_employee(t, r.id) = None
    THEN Respond(r, 500, "InvalidRequestError")
    ELSE Respond([r EXCEPT !.body = get_employee(t, r.id)], code, "none")

CreateRefresh(w) ==
    /\ req[w].op = "create" /\ req[w].pc = "refresh"
    /\ req' = [req EXCEPT ![w] = refresh(@, table, 201)]
    /\ UNCHANGED <<table, sessions>>

(* ------------------------------------------------------- update_employee *)

\* PUT /employees/{id} arrives.
StartUpdate(w, ids, inputs) ==
    /\ req[w].pc = "idle"
    /\ \E i \in ids, p \in inputs :
         req' = [req EXCEPT ![w] =
                    IF EmployeeUpdate(p)
                    THEN [Idle EXCEPT !.op = "update", !.pc = "lookup",
                                      !.id = i, !.payload = p,
                                      !.db = SessionLocal(sessions)]
                    ELSE Respond([Idle EXCEPT !.op = "update", !.id = i,
                                              !.payload = p], 422, "none")]
    /\ UNCHANGED table
    /\ sessions' = sessions \cup ({req'[w].db} \ {0})

\* emp = get_employee(db, id); 404 when there is none.
UpdateLookup(w) ==
    /\ req[w].op = "update" /\ req[w].pc = "lookup"
    /\ LET found == get_employee(table, req[w].id) IN
       req' = [req EXCEPT ![w] =
                  IF found = None
                  THEN Respond(@, 404, "none")
                  ELSE [@ EXCEPT !.pc = "check", !.emp = Some(Attrs(Val(found)))]]
    /\ UNCHANGED <<table, sessions>>

\* `if payload.email and payload.email != emp.email:` and the query under it.
\* (Without the comparison with emp.email any email given would count.)
EmailChanged_Always(p, e) == Truthy("email", p.email)
EmailChanged(p, e) == Truthy("email", p.email) /\ Val(p.email) # e.email

UpdateCheck(w) ==
    /\ req[w].op = "update" /\ req[w].pc = "check"
    /\ LET p == req[w].payload
           e == Val(req[w].emp)
       IN  req' = [req EXCEPT ![w] =
                      IF EmailChanged(p, e) /\ email_exists(table, Val(p.email))
                      THEN Respond(@, 400, "none")
                      ELSE [@ EXCEPT !.pc = "commit"]]
    /\ UNCHANGED <<table, sessions>>

\* The four `if payload.<f>: emp.<f> = ...` assignments.
Assigned(e, p) ==
    [name       |-> IF Truthy("name", p.name) THEN strip(Val(p.name)) ELSE e.name,
     email      |-> IF Truthy("email", p.email) THEN Val(p.email) ELSE e.email,
     age        |-> IF Truthy("age", p.age) THEN Val(p.age) ELSE e.age,
     department |-> IF Truthy("department", p.department)
                    THEN strip(Val(p.department)) ELSE e.department]

\* The attributes the unit of work writes: those whose value differs from
\* the loaded one.
Dirty(e, new) == {f \in FieldNames : new[f] # e[f]}

\* The row after UPDATE employees SET <dirty> WHERE id = ...
Updated(cur, new, dirty) ==
    [f \in DOMAIN cur |-> IF f \in dirty THEN new[f] ELSE cur[f]]

\* db.commit(): nothing to write, or one UPDATE and COMMIT (StaleDataError
\* when the row is gone, IntegrityError on the unique index).
UpdateCommit(w) ==
    /\ req[w].op = "update" /\ req[w].pc = "commit"
    /\ LET e     == Val(req[w].emp)
           new   == Assigned(e, req[w].payload)
           dirty == Dirty(e, new)
           cur   == get_employee(table, req[w].id)
           after == (table \ cur) \cup {Updated(Val(cur), new, dirty)}
       IN  IF dirty = {}
           THEN /\ req' = [req EXCEPT ![w] = [@ EXCEPT !.pc = "refresh"]]
                /\ UNCHANGED table
           ELSE IF cur = None
           THEN /\ req' = [req EXCEPT ![w] = Respond(@, 500, "StaleDataError")]
                /\ UNCHANGED table
           ELSE IF "email" \in dirty /\ ~UniqueEmailOk(table, req[w].id, new.email)
           THEN /\ req' = [req EXCEPT ![w] = Respond(@, 500, "IntegrityError")]
                /\ UNCHANGED table
           ELSE /\ table' = after
                /\ req' = [req EXCEPT ![w] = [@ EXCEPT !.pc = "refresh",
                                                       !.wrote = (after # table)]]
    /\ UNCHANGED sessions

UpdateRefresh(w) ==
    /\ req[w].op = "update" /\ req[w].pc = "refresh"
    /\ req' = [req EXCEPT ![w] = refresh(@, table, 200)]
    /\ UNCHANGED <<table, sessions>>

(* ------------------------------------------------------- delete_employee *)

\* DELETE /employees/{id} arrives.
StartDelete(w, ids) ==
    /\ req[w].pc = "idle"
    /\ \E i \in ids :
         req' = [req EXCEPT ![w] = [Idle EXCEPT !.op = "delete", !.pc = "lookup",
                                                !.id = i,
                                                !.db = SessionLocal(sessions)]]
    /\ UNCHANGED table
    /\ sessions' = sessions \cup ({req'[w].db} \ {0})

\* The lookup, 404 when there is no row; db.delete(emp).
DeleteLookup(w) ==
    /\ req[w].op = "delete" /\ req[w].pc = "lookup"
    /\ LET found == get_employee(table, req[w].id) IN
       req' = [req EXCEPT ![w] =
                  IF found = None
                  THEN Respond(@, 404, "none")
                  ELSE [@ EXCEPT !.pc = "commit", !.emp = Some(Attrs(Val(found)))]]
    /\ UNCHANGED <<table, sessions>>

\* db.commit(): DELETE ... WHERE id = ... and COMMIT (a row already gone is
\* only a warning), then the message.
Deleted(t, i) == {r \in t : r.id # i}

DeleteCommit(w) ==
    /\ req[w].op = "delete" /\ req[w].pc = "commit"
    /\ table' = Deleted(table, req[w].id)
    /\ req' = [req EXCEPT ![w] =
                  Respond([@ EXCEPT !.wrote = (Deleted(table, req[w].id) # table)],
                          200, "none")]
    /\ UNCHANGED sessions

\* finally: db.close(); the response leaves and the worker is free again.
Finish(w) ==
    /\ req[w].pc = "done"
    /\ req' = [req EXCEPT ![w] = Idle]
    /\ UNCHANGED table
    /\ sessions' = close(sessions, req[w].db)

(* -------------------------------------------------------- list_employees *)

\* lower() of a string: "A" and "B" are the upper-case letters drawn.
lower(s) ==
    [i \in 1..Len(s) |->
        IF s[i] = "A" THEN "a" ELSE IF s[i] = "B" THEN "b" ELSE s[i]]

\* `sub` occurs in `s`.
contains(s, sub) ==
    \E i \in 1..(Len(s) - Len(sub) + 1) : SubSeq(s, i, i + Len(sub) - 1) = sub

\* EmployeeORM.name.ilike(f"%{search}%")
ilike(name, search) == contains(lower(name), lower(search))

\* SELECT ... FROM employees without ORDER BY: the rows in rowid order.
RECURSIVE scan(_)
scan(t) ==
    IF t = {} THEN <<>>
    ELSE LET first == CHOOSE r \in t : \A o \in t : r.id <= o.id
         IN  <<first>> \o scan(t \ {first})

\* `if dept:` and `if search:` of list_employees.
\* (Without the department predicate only the name would select.)
list_filters_NoDept(s, dept, search) ==
    LET byName(r) == ~Truthy("name", search) \/ ilike(r.name, Val(search))
    IN  SelectSeq(s, byName)

list_filters(s, dept, search) ==
    LET byDept(r) == ~Truthy("department", dept) \/ r.department = Val(dept)
        byName(r) == ~Truthy("name", search) \/ ilike(r.name, Val(search))
    IN  SelectSeq(SelectSeq(s, byDept), byName)

\* OFFSET k: the sequence without its first k rows.
RECURSIVE offset(_, _)
offset(s, k) == IF k <= 0 \/ s = <<>> THEN s ELSE offset(Tail(s), k - 1)

\* LIMIT n: the first n rows of the sequence.
RECURSIVE limit(_, _)
limit(s, n) ==
    IF n <= 0 \/ s = <<>> THEN <<>> ELSE <<Head(s)>> \o limit(Tail(s), n - 1)

\* (page - 1) * per_page
\* (page * per_page would skip the first page.)
page_offset_NextPage(page, per_page) == page * per_page
page_offset(page, per_page) == (page - 1) * per_page

\* q.offset((page - 1) * per_page).limit(per_page)
paginate(s, page, per_page) ==
    limit(offset(s, page_offset(page, per_page)), per_page)

\* The query list_employees builds, and q.all().
list_employees(t, dept, search, page, per_page) ==
    paginate(list_filters(scan(t), dept, search), page, per_page)

\* Query(1, ge=1) and Query(10, ge=1, le=100)
ListParams(q) == q.page >= 1 /\ q.per_page >= 1 /\ q.per_page <= PerPageLimit

\* GET /employees arrives: the query parameters are validated (422).
StartList(w, inputs) ==
    /\ req[w].pc = "idle"
    /\ \E q \in inputs :
         req' = [req EXCEPT ![w] =
                    IF ListParams(q)
                    THEN [Idle EXCEPT !.op = "list", !.pc = "query", !.query = q,
                                      !.db = SessionLocal(sessions)]
                    ELSE Respond([Idle EXCEPT !.op = "list", !.query = q],
                                 422, "none")]
    /\ UNCHANGED table
    /\ sessions' = sessions \cup ({req'[w].db} \ {0})

\* The one SELECT of the handler; its rows are the response.
\* (A handler that lower-cased the names of the rows it read and committed
\* would write to the table.)
ListQuery_Commit(w) ==
    /\ req[w].op = "list" /\ req[w].pc = "query"
    /\ LET q == req[w].query IN
       req' = [req EXCEPT ![w] =
                  Respond([@ EXCEPT !.rows = list_employees(table, q.dept, q.search,
                                                            q.page, q.per_page)],
                          200, "none")]
    /\ table' = {[r EXCEPT !.name = lower(r.name)] : r \in table}
    /\ UNCHANGED sessions

ListQuery(w) ==
    /\ req[w].op = "list" /\ req[w].pc = "query"
    /\ LET q == req[w].query IN
       req' = [req EXCEPT ![w] =
                  Respond([@ EXCEPT !.rows = list_employees(table, q.dept, q.search,
                                                            q.page, q.per_page)],
                          200, "none")]
    /\ UNCHANGED <<table, sessions>>

(* ------------------------------------------------------ export_employees *)

\* EmployeeORM.name.contains(search) is `name LIKE '%' || ? || '%'`, and
\* the LIKE of SQLite compares ASCII letters without regard to case.
like_contains(name, search) == contains(lower(name), lower(search))

\* `if dept:` and `if search:` of export_employees.
export_filters(s, dept, search) ==
    LET byDept(r) == ~Truthy("department", dept) \/ r.department = Val(dept)
        byName(r) == ~Truthy("name", search) \/ like_contains(r.name, Val(search))
    IN  SelectSeq(SelectSeq(s, byDept), byName)

\* rows = q.all(): no ordering, no pagination.
export_rows(t, dept, search) == export_filters(scan(t), dept, search)

\* EmployeeOut.model_validate(r).dict(): the five fields of the row.
EmployeeOut(r) ==
    [id |-> r.id, name |-> r.name, email |-> r.email, age |-> r.age,
     department |-> r.department]

\* The JSON branch: one record per row, in the order of the rows.
export_json(rows) == [i \in 1..Len(rows) |-> EmployeeOut(rows[i])]

\* The characters of an email address.
chars(e) ==
    LET domain == <<"@", "x", ".", "i", "o">> IN
    CASE e = "a@x.io" -> <<"a">> \o domain
      [] e = "b@x.io" -> <<"b">> \o domain
      [] e = "c@x.io" -> <<"c">> \o domain
      [] e = "d@x.io" -> <<"d">> \o domain

Digits == <<"0", "1", "2", "3", "4", "5", "6", "7", "8", "9">>

\* str(n) of an int, as csv.writer renders a number.
RECURSIVE str(_)
str(n) ==
    IF n < 0 THEN <<"-">> \o str(0 - n)
    ELSE IF n < 10 THEN <<Digits[n + 1]>>
    ELSE str(n \div 10) \o <<Digits[(n % 10) + 1]>>

\* The excel dialect of csv.writer.
Delimiter == ","
QuoteChar == "\""
LineTerminator == <<"\r", "\n">>

\* doublequote: every quote character of the field is written twice.
RECURSIVE doublequote(_)
doublequote(s) ==
    IF s = <<>> THEN <<>>
    ELSE (IF Head(s) = QuoteChar THEN <<QuoteChar, QuoteChar>> ELSE <<Head(s)>>)
         \o doublequote(Tail(s))

\* QUOTE_MINIMAL: a field holding the delimiter, the quote character or a
\* character of the line terminator is written between quotes.
\* (Written as it is, such a field would break the row.)
csv_field_Unquoted(s) == s
csv_field(s) ==
    IF \E i \in 1..Len(s) : s[i] \in {Delimiter, QuoteChar, "\r", "\n"}
    THEN <<QuoteChar>> \o doublequote(s) \o <<QuoteChar>>
    ELSE s

\* w.writerow(fields): the fields joined by the delimiter, then \r\n.
RECURSIVE join(_)
join(fields) ==
    IF fields = <<>> THEN <<>>
    ELSE IF Len(fields) = 1 THEN csv_field(fields[1])
    ELSE csv_field(Head(fields)) \o <<Delimiter>> \o join(Tail(fields))

writerow(fields) == join(fields) \o LineTerminator

Header == <<<<"i", "d">>, <<"n", "a", "m", "e">>, <<"e", "m", "a", "i", "l">>,
            <<"a", "g", "e">>,
            <<"d", "e", "p", "a", "r", "t", "m", "e", "n", "t">>>>

\* [r.id, r.name, r.email, r.age, r.department]
csv_row(r) == <<str(r.id), r.name, chars(r.email), str(r.age), r.department>>

RECURSIVE writerows(_)
writerows(rows) ==
    IF rows = <<>> THEN <<>>
    ELSE writerow(csv_row(Head(rows))) \o writerows(Tail(rows))

\* The CSV branch: the header, then one row per row of the query.
export_csv(rows) == writerow(Header) \o writerows(rows)

\* Query("csv", regex="^(csv|json)$")
ExportParams(q) == q.fmt \in {"csv", "json"}

\* GET /employees/export arrives: the query parameters are validated (422).
StartExport(w, inputs) ==
    /\ req[w].pc = "idle"
    /\ \E q \in inputs :
         req' = [req EXCEPT ![w] =
                    IF ExportParams(q)
                    THEN [Idle EXCEPT !.op = "export", !.pc = "query", !.query = q,
                                      !.db = SessionLocal(sessions)]
                    ELSE Respond([Idle EXCEPT !.op = "export", !.query = q],
                                 422, "none")]
    /\ UNCHANGED table
    /\ sessions' = sessions \cup ({req'[w].db} \ {0})

\* The one SELECT of the handler; its rows are the response, as a JSON list
\* or as CSV text.
ExportQuery(w) ==
    /\ req[w].op = "export" /\ req[w].pc = "query"
    /\ LET q == req[w].query
           rows == export_rows(table, q.dept, q.search)
       IN  req' = [req EXCEPT ![w] =
                      Respond(IF q.fmt = "json"
                              THEN [@ EXCEPT !.rows = export_json(rows)]
                              ELSE [@ EXCEPT !.text = export_csv(rows)],
                              200, "none")]
    /\ UNCHANGED <<table, sessions>>

(* -------------------------------------------------------- specifications *)

Opt(S) == {None} \cup {Some(x) : x \in S}

\* Request bodies of the concurrent specification: the emails vary, and an
\* update may set an age no create accepts.
CreateInputs ==
    [name : {Some(<<"a">>)}, email : Opt({"a@x.io", "b@x.io"}),
     age : {Some(MinAge)}, department : {Some(<<"d">>)}]

UpdateInputs ==
    {p \in [name : {None}, email : Opt({"a@x.io", "b@x.io"}),
            age : {None, Some(MaxAge + 1)}, department : {None}] :
        p.email = None \/ p.age = None}

Step(w, creates, updates) ==
    \/ StartCreate(w, creates)
    \/ CreateCheck(w)
    \/ CreateCommit(w, MaxId)
    \/ CreateRefresh(w)
    \/ StartUpdate(w, 1..MaxId, updates)
    \/ UpdateLookup(w)
    \/ UpdateCheck(w)
    \/ UpdateCommit(w)
    \/ UpdateRefresh(w)
    \/ StartDelete(w, 1..MaxId)
    \/ DeleteLookup(w)
    \/ DeleteCommit(w)
    \/ Finish(w)

\* Two worker threads serving any requests.
Next == \E w \in Workers : Step(w, CreateInputs, UpdateInputs)

Spec == Init /\ [][Next]_vars

\* Request bodies of the sequential specification: every field varies, with
\* blank, padded, falsy and out-of-range values; an update carries at most
\* two fields.
SeqCreateInputs ==
    [name : {Some(<<>>), Some(<<" ">>), Some(<<" ", "a", " ">>)},
     email : {Some("a@x.io"), Some("b@x.io"), Some("nomail")},
     age : {Some(MinAge), Some(MaxAge + 1)},
     department : {Some(<<>>), Some(<<" ">>), Some(<<"d">>)}]

SeqUpdateInputs ==
    {p \in [name : Opt({<<>>, <<" ">>, <<" ", "a", " ">>}),
            email : Opt({"a@x.io", "b@x.io", "nomail"}),
            age : Opt({0, MaxAge + 1}),
            department : Opt({<<>>, <<" ">>, <<"d">>})] :
        Cardinality({f \in FieldNames : p[f] # None}) <= 2}

\* One worker thread: the requests run one after the other.
NextSeq == Step("w1", SeqCreateInputs, SeqUpdateInputs)

SpecSeq == Init /\ [][NextSeq]_vars

\* The employees and the query parameters of the specification of the
\* queries.
QueryCreateInputs ==
    {[name |-> Some(<<"a">>), email |-> Some("a@x.io"), age |-> Some(MinAge),
      department |-> Some(<<"d">>)],
     [name |-> Some(<<"A", "b">>), email |-> Some("b@x.io"), age |-> Some(MinAge),
      department |-> Some(<<"d">>)],
     [name |-> Some(<<"b">>), email |-> Some("c@x.io"), age |-> Some(MaxAge),
      department |-> Some(<<"e">>)],
     [name |-> Some(<<"B", "a">>), email |-> Some("d@x.io"), age |-> Some(MaxAge),
      department |-> Some(<<"d">>)]}

Depts == {None, Some(<<>>), Some(<<"d">>)}
Searches == {None, Some(<<"a">>)}

ListInputs ==
    [dept : Depts, search : Searches, page : 0..MaxPage,
     per_page : (0..MaxPerPage) \cup {PerPageLimit + 1}]

StepQuery(w) ==
    \/ StartCreate(w, QueryCreateInputs)
    \/ CreateCheck(w)
    \/ CreateCommit(w, MaxRows)
    \/ CreateRefresh(w)
    \/ StartDelete(w, 1..MaxRows)
    \/ DeleteLookup(w)
    \/ DeleteCommit(w)
    \/ StartList(w, ListInputs)
    \/ ListQuery(w)
    \/ Finish(w)

\* One worker thread filling the table and listing it.
NextQuery == StepQuery("w1")

SpecQuery == Init /\ [][NextQuery]_vars

\* The employees and the query parameters of the specification of the
\* export: names with a comma, a quote and a line break in them.
ExportCreateInputs ==
    {[name |-> Some(<<"a", ",", "b">>), email |-> Some("a@x.io"),
      age |-> Some(MinAge), department |-> Some(<<"d">>)],
     [name |-> Some(<<"A", "\"">>), email |-> Some("b@x.io"),
      age |-> Some(MaxAge), department |-> Some(<<"d">>)],
     [name |-> Some(<<"b", "\n", "a">>), email |-> Some("c@x.io"),
      age |-> Some(MinAge), department |-> Some(<<"e">>)],
     [name |-> Some(<<"b">>), email |-> Some("d@x.io"),
      age |-> Some(MaxAge), department |-> Some(<<"e">>)]}

ExportInputs == [fmt : {"csv", "json", "xml"}, dept : Depts, search : Searches]

StepExport(w) ==
    \/ StartCreate(w, ExportCreateInputs)
    \/ CreateCheck(w)
    \/ CreateCommit(w, MaxId)
    \/ CreateRefresh(w)
    \/ StartDelete(w, 1..MaxId)
    \/ DeleteLookup(w)
    \/ DeleteCommit(w)
    \/ StartExport(w, ExportInputs)
    \/ ExportQuery(w)
    \/ Finish(w)

\* One worker thread filling the table and exporting it.
NextExport == StepExport("w1")

SpecExport == Init /\ [][NextExport]_vars

\* The requests of the specification of the sessions: every handler, with
\* the bodies and parameters that lead to each of its exits.
LiveCreateInputs ==
    [name : {Some(<<"a">>)}, email : {Some("a@x.io")},
     age : {Some(MinAge)}, department : {Some(<<"d">>)}]

LiveUpdateInputs ==
    [name : {None}, email : {Some("b@x.io")}, age : {None}, department : {None}]

LiveListInputs == [dept : {None}, search : {None}, page : {0, 1}, per_page : {1}]

LiveExportInputs == [fmt : {"csv", "xml"}, dept : {None}, search : {None}]

\* A create is let in while a rowid within the bound is left for it, so
\* that the bound never holds back a commit.
Room(w) ==
    MaxRowid(table)
    + Cardinality({o \in Workers \ {w} :
                      req[o].op = "create" /\ req[o].pc \in {"check", "commit"}})
    < MaxId

\* A request arrives at a free worker thread.
Arrive(w) ==
    \/ Room(w) /\ StartCreate(w, LiveCreateInputs)
    \/ StartUpdate(w, 1..MaxId, LiveUpdateInputs)
    \/ StartDelete(w, 1..MaxId)
    \/ StartList(w, LiveListInputs)
    \/ StartExport(w, LiveExportInputs)

\* The thread runs the next statement of its handler.
Run(w) ==
    \/ CreateCheck(w)
    \/ CreateCommit(w, MaxId)
    \/ CreateRefresh(w)
    \/ UpdateLookup(w)
    \/ UpdateCheck(w)
    \/ UpdateCommit(w)
    \/ UpdateRefresh(w)
    \/ DeleteLookup(w)
    \/ DeleteCommit(w)
    \/ ListQuery(w)
    \/ ExportQuery(w)
    \/ Finish(w)

\* A request that writes arrives at a free worker thread.
Writes(w) ==
    \/ Room(w) /\ StartCreate(w, LiveCreateInputs)
    \/ StartDelete(w, 1..MaxId)

NextLive == Arrive("w1") \/ Writes("w2") \/ \E w \in Workers : Run(w)

\* Two worker threads, one serving any requests and one serving creates and
\* deletes beside it; a thread that has a statement to run is scheduled and
\* the statement returns.
SpecLive == Init /\ [][NextLive]_vars /\ \A w \in Workers : WF_vars(Run(w))

\* The requests of the specification of the reads beside the writes.
ReadCreateInputs ==
    {[name |-> Some(<<"A", "b">>), email |-> Some("a@x.io"), age |-> Some(MinAge),
      department |-> Some(<<"d">>)],
     [name |-> Some(<<"b">>), email |-> Some("b@x.io"), age |-> Some(MaxAge),
      department |-> Some(<<"e">>)]}

ReadUpdateInputs ==
    [name : {Some(<<"B", "a">>)}, email : {None}, age : {None},
     department : {None}]

ReadSteps(w) ==
    \/ StartList(w, ListInputs)
    \/ ListQuery(w)
    \/ StartExport(w, ExportInputs)
    \/ ExportQuery(w)
    \/ Finish(w)

WriteSteps(w) ==
    \/ StartCreate(w, ReadCreateInputs)
    \/ CreateCheck(w)
    \/ CreateCommit(w, MaxId)
    \/ CreateRefresh(w)
    \/ StartUpdate(w, 1..MaxId, ReadUpdateInputs)
    \/ UpdateLookup(w)
    \/ UpdateCheck(w)
    \/ UpdateCommit(w)
    \/ UpdateRefresh(w)
    \/ StartDelete(w, 1..MaxId)
    \/ DeleteLookup(w)
    \/ DeleteCommit(w)
    \/ Finish(w)

\* Two worker threads: one serving lists and exports, the other creates,
\* updates and deletes beside them.
NextRead == ReadSteps("w1") \/ WriteSteps("w2")

SpecRead == Init /\ [][NextRead]_vars

(* ---------------------------------------------------------- properties *)

Done(w, op) == req[w].op = op /\ req[w].pc = "done"

\* C1: of two create requests with the same email, as soon as one has
\* responded 201 the other responds 400, under any interleaving of their
\* check, insert and commit.
C1_OneCreatedOneDuplicate ==
    \A a, b \in Workers :
        ( /\ a # b
          /\ Done(a, "create") /\ Done(b, "create")
          /\ req[a].resp # 422 /\ req[b].resp # 422
          /\ req[a].payload.email = req[b].payload.email
          /\ req[a].resp = 201 )
        => req[b].resp = 400

\* C2: in every reachable state no two rows of the table hold the same email
\* and no two rows hold the same id.
C2_UniqueEmailAndId ==
    \A r1, r2 \in table : r1 # r2 => r1.email # r2.email /\ r1.id # r2.id

\* Two rows are stored and a racing write was refused by the unique index.
C2_Witness ==
    /\ Cardinality(table) = 2
    /\ \E w \in Workers : req[w].err = "IntegrityError"

\* C3: in every reachable state every stored row has 18 <= age <= 100.
C3_AgeInBounds == \A r \in table : r.age >= MinAge /\ r.age <= MaxAge

\* A string of whitespace only.
Blank(s) == \A i \in 1..Len(s) : s[i] = " "

\* C4: in every reachable state every stored row has a name and a department
\* that are not blank, and a create or update whose name or department is
\* whitespace only is answered 422.
C4_NameAndDepartmentNotBlank ==
    /\ \A r \in table : ~Blank(r.name) /\ ~Blank(r.department)
    /\ \A w \in Workers :
         ( /\ req[w].pc = "done" /\ req[w].op \in {"create", "update"}
           /\ \E f \in {"name", "department"} :
                /\ req[w].payload[f] # None
                /\ Len(Val(req[w].payload[f])) >= 1
                /\ Blank(Val(req[w].payload[f])) )
         => req[w].resp = 422

\* C5: a create, update or delete that ends with an error response has not
\* changed the table.
C5_ErrorLeavesStoreUnchanged ==
    \A w \in Workers :
        ( /\ req[w].pc = "done" /\ req[w].op \in {"create", "update", "delete"}
          /\ req[w].resp \in {400, 404, 422, 500} )
        => ~req[w].wrote

\* C6 as claimed: the record returned with 201, and the row stored under its
\* id, carry the name, email, age and department of the payload.
C6_ReturnedEqualsPayload ==
    \A w \in Workers :
        (Done(w, "create") /\ req[w].resp = 201)
        => LET b == Val(req[w].body)
               p == req[w].payload
           IN  /\ get_employee(table, b.id) = req[w].body
               /\ b.name = Val(p.name) /\ b.email = Val(p.email)
               /\ b.age = Val(p.age) /\ b.department = Val(p.department)

\* `t` is `s` without its leading and trailing whitespace.
IsStripped(s, t) ==
    /\ t = <<>> \/ (t[1] # " " /\ t[Len(t)] # " ")
    /\ \E i \in 0..Len(s) :
         /\ i + Len(t) <= Len(s)
         /\ \A k \in 1..Len(s) :
              IF k > i /\ k <= i + Len(t) THEN s[k] = t[k - i] ELSE s[k] = " "

\* C6: with the requests served one at a time, the record returned with 201,
\* and the row stored under its id, carry the email and the age of the
\* payload and its name and department without their leading and trailing
\* whitespace; only the id is added.
C6_ReturnedEqualsStrippedPayload ==
    \A w \in Workers :
        (Done(w, "create") /\ req[w].resp = 201)
        => LET b == Val(req[w].body)
               p == req[w].payload
           IN  /\ get_employee(table, b.id) = req[w].body
               /\ b.id = req[w].id
               /\ IsStripped(Val(p.name), b.name)
               /\ b.email = Val(p.email)
               /\ b.age = Val(p.age)
               /\ IsStripped(Val(p.department), b.department)

\* A create answered 201 whose stored name is not the name of the payload.
C6_Witness ==
    \E w \in Workers :
        /\ Done(w, "create") /\ req[w].resp = 201
        /\ Val(req[w].body).name # Val(req[w].payload.name)
        /\ Val(req[w].body).name # <<>>

\* C7: once a delete of an id has responded 200, every later lookup of that
\* id by an update or a delete finds no row and responds 404.
C7_DeletedIdStaysNotFound ==
    [][\A d, w \in Workers :
          ( /\ d # w
            /\ Done(d, "delete") /\ req[d].resp = 200
            /\ req[w].pc = "lookup" /\ req[w].id = req[d].id
            /\ req'[w].pc # "lookup" )
          => req'[w].resp = 404]_vars

\* C8: an update with no email, or with the email its row holds, never
\* responds 400 and is never refused by the unique index; when its row
\* exists and is not deleted under it, it responds 200.
C8_NoEmailChangeNeverDuplicate ==
    \A w \in Workers :
        ( /\ Done(w, "update") /\ req[w].resp # 422
          /\ \/ req[w].payload.email = None
             \/ /\ req[w].emp # None
                /\ req[w].payload.email = Some(Val(req[w].emp).email) )
        => /\ req[w].resp # 400
           /\ req[w].err # "IntegrityError"
           /\ (req[w].emp # None /\ req[w].err = "none") => req[w].resp = 200

\* An update carrying the email of its own row is answered 200 while another
\* row exists.
C8_Witness ==
    \E w \in Workers :
        /\ Done(w, "update") /\ req[w].resp = 200
        /\ req[w].payload.email = Some(Val(req[w].emp).email)
        /\ Cardinality(table) = 2

\* A field the payload omits or gives as "" or 0.
NotProvided(p, f) == p[f] = None \/ Val(p[f]) = Falsy[f]

\* C9: the commit of an update changes at most its own row, keeps the id of
\* the row and every field the payload omits or gives as "" or 0, and the 200
\* response is the full row as stored.
C9_UpdateFrame ==
    [][\A w \in Workers :
          /\ ( req[w].op = "update" /\ req[w].pc = "commit"
               /\ req'[w].pc = "refresh" )
             => \/ table' = table
                \/ \E cur \in table, new \in table' :
                     /\ cur.id = req[w].id /\ new.id = req[w].id
                     /\ table' \ {new} = table \ {cur}
                     /\ \A f \in FieldNames :
                          NotProvided(req[w].payload, f) => new[f] = cur[f]
          /\ ( req[w].op = "update" /\ req[w].pc = "refresh"
               /\ req'[w].resp = 200 )
             => /\ req'[w].body # None
                /\ Val(req'[w].body) \in table
                /\ Val(req'[w].body).id = req[w].id]_vars

\* An update answered 200 that gave the age as 0 and changed another field.
C9_Witness ==
    \E w \in Workers :
        /\ Done(w, "update") /\ req[w].resp = 200
        /\ req[w].payload.age = Some(0)
        /\ Attrs(Val(req[w].body)) # Val(req[w].emp)

Min(a, b) == IF a <= b THEN a ELSE b

\* C10: for the table and the filter of every list request answered 200, the
\* rows returned are those at positions (page-1)*per_page+1 .. page*per_page
\* of the filtered sequence, and pages 1 and 2 of n rows are page 1 of 2n
\* rows.
C10_Pagination ==
    \A w \in Workers :
        (Done(w, "list") /\ req[w].resp = 200)
        => LET q == req[w].query
               all == list_filters(scan(table), q.dept, q.search)
               list(p, n) == list_employees(table, q.dept, q.search, p, n)
               from == (q.page - 1) * q.per_page
           IN  /\ req[w].rows =
                     IF from >= Len(all) THEN <<>>
                     ELSE SubSeq(all, from + 1, Min(from + q.per_page, Len(all)))
               /\ \A n \in 1..MaxPerPage :
                     2 * n <= PerPageLimit
                     => list(1, n) \o list(2, n) = list(1, 2 * n)

\* A second page with rows in it was returned from a table of four rows.
C10_Witness ==
    \E w \in Workers :
        /\ Done(w, "list") /\ req[w].resp = 200
        /\ req[w].query.page = 2 /\ req[w].rows # <<>>
        /\ Cardinality(table) >= 4

\* The rows of a sequence, as a set.
Range(s) == {s[i] : i \in 1..Len(s)}

\* A list answered 200 with a department given, no search, and a first page
\* that holds every row of that department.
WholeDept(w) ==
    /\ Done(w, "list") /\ req[w].resp = 200
    /\ req[w].query.dept # None
    /\ req[w].query.search = None
    /\ req[w].query.page = 1
    /\ req[w].query.per_page >=
           Cardinality({r \in table : r.department = Val(req[w].query.dept)})

\* C11 as claimed: for every department value given as dept, the list returns
\* exactly the rows whose department equals it.
C11_ExactlyTheDepartment ==
    \A w \in Workers :
        WholeDept(w)
        => Range(req[w].rows) =
               {r \in table : r.department = Val(req[w].query.dept)}

\* C11: for every non-empty department value given as dept, the list returns
\* exactly the rows whose department equals it, each once; an empty dept is
\* no filter and every row of the table is returned.
C11_ExactlyTheNonEmptyDepartment ==
    \A w \in Workers :
        WholeDept(w)
        => IF Val(req[w].query.dept) # <<>>
           THEN /\ Range(req[w].rows) =
                       {r \in table : r.department = Val(req[w].query.dept)}
                /\ Len(req[w].rows) = Cardinality(Range(req[w].rows))
           ELSE Range(req[w].rows) =
                    {r \in table : \E i \in 1..req[w].query.per_page :
                                      i <= Len(scan(table)) /\ scan(table)[i] = r}

\* A department was listed from a table that also holds another one.
C11_Witness ==
    \E w \in Workers :
        /\ WholeDept(w)
        /\ Val(req[w].query.dept) # <<>>
        /\ req[w].rows # <<>>
        /\ \E r \in table : r.department # Val(req[w].query.dept)

\* What a CSV reader of the excel dialect makes of a text: the rows, each
\* the sequence of its fields.  A character is outside the quoted fields when
\* an even number of quote characters precedes it.
Outside(text, i) ==
    Cardinality({j \in 1..(i - 1) : text[j] = QuoteChar}) % 2 = 0

First(S) == CHOOSE i \in S : \A j \in S : i <= j

\* A doubled quote inside a quoted field stands for one quote.
RECURSIVE collapse(_)
collapse(s) ==
    IF s = <<>> THEN <<>>
    ELSE IF Len(s) >= 2 /\ s[1] = QuoteChar /\ s[2] = QuoteChar
    THEN <<QuoteChar>> \o collapse(SubSeq(s, 3, Len(s)))
    ELSE <<Head(s)>> \o collapse(Tail(s))

unquote(f) ==
    IF f # <<>> /\ f[1] = QuoteChar
    THEN collapse(SubSeq(f, 2, Len(f) - 1))
    ELSE f

RECURSIVE csv_fields(_)
csv_fields(line) ==
    LET seps == {i \in 1..Len(line) : line[i] = Delimiter /\ Outside(line, i)}
    IN  IF seps = {} THEN <<unquote(line)>>
        ELSE <<unquote(SubSeq(line, 1, First(seps) - 1))>>
             \o csv_fields(SubSeq(line, First(seps) + 1, Len(line)))

RECURSIVE csv_reader(_)
csv_reader(text) ==
    LET ends == {i \in 1..Len(text) :
                    text[i] \in {"\r", "\n"} /\ Outside(text, i)}
        e == First(ends)
        n == IF text[e] = "\r" /\ e < Len(text) /\ text[e + 1] = "\n"
             THEN 2 ELSE 1
    IN  IF text = <<>> THEN <<>>
        ELSE IF ends = {} THEN <<csv_fields(text)>>
        ELSE <<csv_fields(SubSeq(text, 1, e - 1))>>
             \o csv_reader(SubSeq(text, e + n, Len(text)))

\* The number a decimal numeral stands for.
IsNumeral(s) == s # <<>> /\ \A i \in 1..Len(s) : \E d \in 1..10 : Digits[d] = s[i]

RECURSIVE int(_)
int(s) ==
    IF s = <<>> THEN 0
    ELSE int(SubSeq(s, 1, Len(s) - 1)) * 10
         + (CHOOSE d \in 0..9 : Digits[d + 1] = s[Len(s)])

\* The rows read from a CSV text are the header and then the records of a
\* JSON result, one row each, in the same order and with equal fields.
SameRecords(read, json) ==
    /\ Len(read) = Len(json) + 1
    /\ read[1] = Header
    /\ \A i \in 1..Len(json) :
         LET c == read[i + 1] IN
         /\ Len(c) = 5
         /\ IsNumeral(c[1]) /\ int(c[1]) = json[i].id
         /\ c[2] = json[i].name
         /\ c[3] = chars(json[i].email)
         /\ IsNumeral(c[4]) /\ int(c[4]) = json[i].age
         /\ c[5] = json[i].department

\* C12: for the table and the filters of an answered export, the CSV text
\* and the JSON list hold the same records in the same order: read back, the
\* text is the header and one row per record of the list, with equal id,
\* name, email, age and department.
C12_CsvEqualsJson ==
    \A w \in Workers :
        Done(w, "export") /\ req[w].resp = 200
        => LET q == req[w].query
               rows == export_rows(table, q.dept, q.search)
               csv == IF q.fmt = "csv" THEN req[w].text ELSE export_csv(rows)
               json == IF q.fmt = "json" THEN req[w].rows ELSE export_json(rows)
           IN  SameRecords(csv_reader(csv), json)

\* A CSV export of two rows was answered, with a field written in quotes.
C12_Witness ==
    \E w \in Workers :
        /\ Done(w, "export") /\ req[w].resp = 200
        /\ req[w].query.fmt = "csv"
        /\ Cardinality(table) = 2
        /\ Len(csv_reader(req[w].text)) = 3
        /\ \E i \in 1..Len(req[w].text) : req[w].text[i] = QuoteChar

\* A done request that went through the duplicate-email check to write the
\* email e: a create carrying e, or an update of a loaded row to another
\* email e.  Requests ended by a concurrent delete of their row are left out.
WritesEmail(w, e) ==
    /\ req[w].pc = "done"
    /\ req[w].resp \in {200, 201, 400, 500}
    /\ req[w].err \in {"none", "IntegrityError"}
    /\ req[w].payload.email = Some(e)
    /\ \/ req[w].op = "create"
       \/ /\ req[w].op = "update"
          /\ req[w].emp # None
          /\ Val(req[w].emp).email # e

\* C13: of an update that changes the email of a row to e and a concurrent
\* create, or update of another row, that also writes e, as soon as one has
\* succeeded the other responds 400, under any interleaving.
C13_OneWritesOtherDuplicate ==
    \A u, o \in Workers : \A e \in ValidEmails :
        /\ u # o
        /\ req[u].op = "update" /\ WritesEmail(u, e)
        /\ WritesEmail(o, e)
        /\ req[o].op = "update" => req[o].id # req[u].id
        /\ req[u].resp \in {200, 201} \/ req[o].resp \in {200, 201}
        => \/ req[u].resp = 200 /\ req[o].resp = 400
           \/ req[u].resp = 400 /\ req[o].resp \in {200, 201}

\* The statements of a handler run with its session open.
InHandler(w) ==
    \/ req[w].pc \in {"check", "lookup", "commit", "refresh", "query"}
    \/ req[w].pc = "done" /\ req[w].resp # 422

\* Every running handler has a session of its own, open until the handler
\* is left, and no session stays open when its request has ended.
OwnSessions ==
    /\ \A w \in Workers : InHandler(w) => req[w].db \in sessions
    /\ \A w, o \in Workers : w # o /\ req[w].db # 0 => req[w].db # req[o].db
    /\ sessions \subseteq {req[w].db : w \in Workers}

\* C14: every handler runs with a session of its own, shared with no other
\* request, and on every exit (a response, a 400 or 404 raised, a failure at
\* the commit) the session is eventually closed; no request ends with its
\* session open.
C14_SessionsClosed ==
    /\ []OwnSessions
    /\ \A s \in 1..Cardinality(Workers) : (s \in sessions) ~> (s \notin sessions)

\* Two sessions are open, one of a request whose commit failed.
C14_Witness ==
    /\ sessions = 1..Cardinality(Workers)
    /\ \E w \in Workers :
         /\ req[w].pc = "done" /\ req[w].err = "IntegrityError"
         /\ req[w].db \in sessions

\* C15: the commit of a delete that answers 200 removes exactly the row
\* with the id of the request: every other row stays as it was and the
\* number of rows decreases by exactly one.
C15_DeleteRemovesExactlyOneRow ==
    [][\A w \in Workers :
          /\ req[w].op = "delete" /\ req[w].pc = "commit"
          /\ req'[w].pc = "done" /\ req'[w].resp = 200
          => /\ \A r \in table : r.id # req[w].id => r \in table'
             /\ \A r \in table' : r \in table /\ r.id # req[w].id
             /\ Cardinality(table') = Cardinality(table) - 1]_vars

\* Worker w takes a step of a list or an export request: its arrival, its
\* query, or its end.
ReadStep(w) ==
    /\ req'[w] # req[w]
    /\ req[w].op \in {"list", "export"} \/ req'[w].op \in {"list", "export"}

\* C16: no step of a list or an export request changes the table, whatever
\* its filter, pagination and format parameters, nor the request another
\* worker is serving beside it.
C16_ReadsLeaveTheStore ==
    [][\A w \in Workers :
          ReadStep(w)
          => /\ table' = table
             /\ \A o \in Workers \ {w} : req'[o] = req[o]]_vars

\* A list or an export was answered from a table that holds rows while the
\* other worker was in the middle of a write.
C16_Witness ==
    \E w, o \in Workers :
        /\ req[w].op \in {"list", "export"} /\ req[w].pc = "done"
        /\ req[w].resp = 200
        /\ req[w].rows # <<>> \/ Len(req[w].text) > Len(export_csv(<<>>))
        /\ req[o].op \in {"create", "update", "delete"}
        /\ req[o].pc \in {"commit", "refresh"}

====
